---------------------------- MODULE Spec2Model ----------------------------
(***************************************************************************)
(* A model of the lexdata codecs (src/src/lib.rs): the size code, the      *)
(* BigInt and Decimal (BigNum) codecs, the fixed-width integer codecs and  *)
(* the dispatch layer.  The codecs are pure functions; the state machine   *)
(* holds the last value handed to an encoder, the record it produced, the  *)
(* bytes that follow the record in the buffer, and the result of the last  *)
(* decoder call on that buffer.                                            *)
(*                                                                         *)
(* Bytes are naturals in 0..255.  Arbitrary-precision integers are a sign  *)
(* and a big-endian byte magnitude with no leading zero byte.  Texts are   *)
(* sequences of one-character strings.                                     *)
(***************************************************************************)
EXTENDS Integers, Sequences, FiniteSets, TLC

VARIABLES op, val, asp, rec, garbage, out

vars == <<op, val, asp, rec, garbage, out>>

(***************************************************************************)
(* Bounds of the model.                                                    *)
(***************************************************************************)
\* size_encode is applied to every n in 0..MaxSmallSize ...
MaxSmallSize == 300
\* ... and to 2^k - 1, 2^k and 2^k + 1 for every k in 7..MaxSizeBits.
MaxSizeBits == 28
\* BigInt values: every integer of magnitude 0..MaxSmallInt ...
MaxSmallInt == 12
\* ... magnitudes of WideBytes - 1 and WideBytes bytes ...
WideBytes == 64
\* ... and, for the order of long records, of MidBytes and HugeBytes bytes.
MidBytes == 128
HugeBytes == 8192
\* Decimal texts: integer parts of WideDigits, MidDigits and HugeDigits
\* digits, which take 64, MidBytes and HugeBytes bytes or more.
WideDigits == 160
MidDigits == 310
HugeDigits == 19728
\* fixed-width integers: the values within Span of each boundary
Span == 1
\* the longest run of bytes that follows a record
MaxGarbage == 2

(***************************************************************************)
(* Bit operations on naturals.                                             *)
(***************************************************************************)
RECURSIVE BitAnd(_, _)
BitAnd(a, b) ==
    IF a = 0 \/ b = 0 THEN 0
    ELSE (a % 2) * (b % 2) + 2 * BitAnd(a \div 2, b \div 2)

RECURSIVE BitOr(_, _)
BitOr(a, b) ==
    IF a = 0 THEN b
    ELSE IF b = 0 THEN a
    ELSE (IF a % 2 = 1 \/ b % 2 = 1 THEN 1 ELSE 0) + 2 * BitOr(a \div 2, b \div 2)

RECURSIVE BitXor(_, _)
BitXor(a, b) ==
    IF a = 0 THEN b
    ELSE IF b = 0 THEN a
    ELSE ((a + b) % 2) + 2 * BitXor(a \div 2, b \div 2)

\* a byte left as it is
Not8Kept(b) == b

\* !b on a u8
Not8(b) == 255 - b

\* the bytes of s, each complemented
NotAll(s) == [i \in 1..Len(s) |-> Not8(s[i])]

Reverse(s) == LET n == Len(s) IN [i \in 1..n |-> s[n + 1 - i]]

\* s[from..to) with 0-based bounds, as a Rust slice
Slice(s, from, to) == [i \in 1..(to - from) |-> s[from + i]]

(***************************************************************************)
(* Unsigned lexicographic byte comparison (Vec<u8>'s Ord).                 *)
(***************************************************************************)
LexLess(s, t) ==
    LET n == IF Len(s) < Len(t) THEN Len(s) ELSE Len(t)
        D == {i \in 1..n : s[i] # t[i]}
    IN  IF D = {} THEN Len(s) < Len(t)
        ELSE LET i == CHOOSE k \in D : \A j \in D : k <= j
             IN  s[i] < t[i]

(***************************************************************************)
(* Size code.                                                              *)
(***************************************************************************)
TERMINAL == 0
FIRST_SIGN == 128
FIRST_TERMINAL == 0
CONTINUATION == 128
FIRST_CONTINUATION == 64
BASE_MASK == 127
FIRST_MASK == 63
FIRST_MAX == 64
NEGATIVE_ZERO == 127

RECURSIVE SizeEncodeLoop(_, _, _)
SizeEncodeLoop(remainder, v, last) ==
    IF remainder <= 0 THEN v
    ELSE LET continued == IF last THEN TERMINAL ELSE CONTINUATION
             first_continued == IF last THEN FIRST_TERMINAL ELSE FIRST_CONTINUATION
             v1 == IF remainder >= CONTINUATION
                   THEN Append(v, BitOr(continued, BitAnd(remainder, BASE_MASK)))
                   ELSE IF remainder >= FIRST_MAX
                   THEN Append(Append(v, BitOr(continued, BitAnd(remainder, BASE_MASK))),
                               BitOr(FIRST_SIGN, FIRST_CONTINUATION))
                   ELSE Append(v, BitOr(BitOr(FIRST_SIGN, first_continued),
                                        BitAnd(remainder, FIRST_MASK)))
         IN  SizeEncodeLoop(remainder \div 128, v1, FALSE)

\* The bytes are returned in reverse order, as in the code.
size_encode(size) ==
    IF size = 0 THEN <<NEGATIVE_ZERO>>
    ELSE SizeEncodeLoop(size, <<>>, TRUE)

\* size <<= 7 on a u32
Shl7(size) == (size % (2 ^ 25)) * 128

RECURSIVE SizeDecodeLoop(_, _, _, _)
SizeDecodeLoop(v, i, size, sign) ==
    IF i >= Len(v) THEN [sign |-> sign, size |-> size, idx |-> Len(v)]
    ELSE IF i = 0
    THEN LET s == BitAnd(v[1], FIRST_SIGN) # 0
             vi == IF s THEN v[1] ELSE Not8(v[1])
             value == BitAnd(vi, FIRST_MASK)
         IN  IF BitAnd(vi, FIRST_CONTINUATION) = 0
             THEN [sign |-> s, size |-> value, idx |-> 1]
             ELSE SizeDecodeLoop(v, 1, Shl7(size + value), s)
    ELSE LET vi == IF sign THEN v[i + 1] ELSE Not8(v[i + 1])
             value == BitAnd(vi, BASE_MASK)
         IN  IF BitAnd(vi, CONTINUATION) = 0
             THEN [sign |-> sign, size |-> size + value, idx |-> i + 1]
             ELSE SizeDecodeLoop(v, i + 1, Shl7(size + value), sign)

size_decode(v) == SizeDecodeLoop(v, 0, 0, TRUE)

(***************************************************************************)
(* Aspects and storage types.                                              *)
(***************************************************************************)
\* The Aspect enumeration in declaration order: String = 1, ..., True = 48.
AspectNames ==
    << "String", "Boolean", "Decimal", "Integer", "Double", "Float",
       "Date", "Time", "DateTime", "DateTimeStamp",
       "GYear", "GMonth", "GDay", "GYearMonth", "GMonthDay",
       "Duration", "YearMonthDuration", "DayTimeDuration",
       "Byte", "Short", "Int", "Long",
       "UnsignedByte", "UnsignedShort", "UnsignedInt", "UnsignedLong",
       "PositiveInteger", "NonNegativeInteger",
       "HexBinary", "Base64Binary",
       "AnyURI", "Language", "NormalizedString", "Token", "NmToken", "Name",
       "NCName", "NOtation", "QName", "ID", "IdRef", "Entity",
       "XMLLiteral", "PlainLiteral", "LangString", "Literal",
       "False", "True" >>

Aspect == {AspectNames[i] : i \in 1..Len(AspectNames)}

\* "Panic" stands for panic!("Unimplemented aspect").
aspect_storage(a) ==
    IF a \in {"String", "AnyURI", "Language", "NormalizedString", "Token", "NmToken",
              "Name", "NCName", "NOtation", "QName", "ID", "IdRef", "Entity"}
    THEN "String"
    ELSE IF a = "Decimal" THEN "BigNum"
    ELSE IF a = "Float" THEN "Float32"
    ELSE IF a = "Double" THEN "Float64"
    ELSE IF a = "Long" THEN "Int64"
    ELSE IF a \in {"Int", "Short", "Byte"} THEN "Int32"
    ELSE IF a \in {"Integer", "PositiveInteger", "NonNegativeInteger"} THEN "BigInt"
    ELSE IF a = "DateTime" THEN "DateTime"
    ELSE "Panic"

aspect_byte(a) == CHOOSE i \in 1..Len(AspectNames) : AspectNames[i] = a

\* "Panic" stands for the failed expect() on a byte that is no aspect.
byte_aspect(b) == IF b \in 1..Len(AspectNames) THEN AspectNames[b] ELSE "Panic"

(***************************************************************************)
(* Results.  A Rust call returns Ok(..), Err(..) or panics.                *)
(***************************************************************************)
OkBytes(b) == [tag |-> "Ok", bytes |-> b]
OkValue(v) == [tag |-> "Ok", value |-> v]
Err(e) == [tag |-> "Err", err |-> e]
Panic == [tag |-> "Panic"]

(***************************************************************************)
(* Arbitrary-precision integers (rug::Integer): a sign and the big-endian  *)
(* bytes of the absolute value, without leading zero bytes; zero is the    *)
(* empty magnitude with neg = FALSE.                                       *)
(***************************************************************************)
BigZero == [neg |-> FALSE, mag |-> <<>>]

\* drop the leading zero bytes
Normalize(m) ==
    LET nz == {i \in 1..Len(m) : m[i] # 0}
    IN  IF nz = {} THEN <<>>
        ELSE LET f == CHOOSE k \in nz : \A j \in nz : k <= j
             IN  [i \in 1..(Len(m) + 1 - f) |-> m[f - 1 + i]]

MkBig(neg, m) ==
    LET n == Normalize(m) IN [neg |-> neg /\ n # <<>>, mag |-> n]

RECURSIVE BitLen(_)
BitLen(b) == IF b = 0 THEN 0 ELSE 1 + BitLen(b \div 2)

\* Integer::significant_bits
significant_bits(m) == IF m = <<>> THEN 0 ELSE 8 * (Len(m) - 1) + BitLen(m[1])

\* numeric order of two magnitudes
MagLess(m, n) ==
    \/ Len(m) < Len(n)
    \/ Len(m) = Len(n) /\ LexLess(m, n)

\* numeric order of two integers
BigLess(x, y) ==
    IF x.neg /\ y.neg THEN MagLess(y.mag, x.mag)
    ELSE IF x.neg THEN TRUE
    ELSE IF y.neg THEN FALSE
    ELSE MagLess(x.mag, y.mag)

(***************************************************************************)
(* BigInt codec.                                                           *)
(***************************************************************************)
\* The loop of num_bytes rounds of to_u8_wrapping() and >>= 8: the low
\* num_bytes bytes of the magnitude, least significant first.
LowBytes(m, num_bytes) ==
    LET n == Len(m)
    IN  [i \in 1..num_bytes |-> IF i <= n THEN m[n + 1 - i] ELSE 0]

bigint_to_storage(bigint, a) ==
    LET is_neg == bigint.neg
        int == bigint.mag
        size == significant_bits(int) + 1
        num_bytes == (size \div 8) + (IF size % 8 # 0 THEN 1 ELSE 0)
        size_bytes == size_encode(num_bytes)
        number_vec == LowBytes(int, num_bytes) \o size_bytes
        signed_vec == IF is_neg THEN NotAll(number_vec) ELSE number_vec
    IN  OkBytes(Reverse(Append(signed_vec, aspect_byte(a))))

\* bytes[idx..(size + 1)] is read: Rust panics when the range is not within
\* the slice.  Each byte read is added after the accumulator was shifted
\* (or is still zero), and the accumulator is shifted after every byte
\* whose index is below size - 1.
storage_to_bigint(bytes) ==
    LET sd == size_decode(bytes)
        is_pos == sd.sign
        size == sd.size
        idx == sd.idx
    IN  IF size = 0 THEN OkValue(BigZero)
        ELSE IF idx > size + 1 \/ size + 1 > Len(bytes) THEN Panic
        ELSE LET k == size + 1 - idx
                 read == [i \in 1..k |->
                            IF is_pos THEN bytes[idx + i] ELSE Not8(bytes[idx + i])]
                 shifted == IF k >= 1 /\ k - 1 < size - 1 THEN Append(read, 0) ELSE read
             IN  OkValue(MkBig(~is_pos, shifted))

(***************************************************************************)
(* Texts: sequences of one-character strings.                              *)
(***************************************************************************)
DigitChars == <<"0", "1", "2", "3", "4", "5", "6", "7", "8", "9">>

IsDigit(c) == \E i \in 1..10 : DigitChars[i] = c

DigitVal(c) == (CHOOSE i \in 1..10 : DigitChars[i] = c) - 1

AllDigits(s) == \A i \in 1..Len(s) : IsDigit(s[i])

\* the text from its 0-based position from on
Drop(s, from) == [i \in 1..(Len(s) - from) |-> s[from + i]]

\* str::split('.'): the text before the first '.', and what lies between the
\* first and the second '.' (parts.next() twice), if there is a first '.'
SplitDot(s) ==
    LET dots == {i \in 1..Len(s) : s[i] = "."}
    IN  IF dots = {} THEN [first |-> s, second |-> [some |-> FALSE]]
        ELSE LET d1 == CHOOSE k \in dots : \A j \in dots : k <= j
                 later == dots \ {d1}
                 d2 == IF later = {} THEN Len(s) + 1
                       ELSE CHOOSE k \in later : \A j \in later : k <= j
             IN  [first |-> [i \in 1..(d1 - 1) |-> s[i]],
                  second |-> [some |-> TRUE,
                              str |-> [i \in 1..(d2 - d1 - 1) |-> s[d1 + i]]]]

(***************************************************************************)
(* Conversion between decimal digits and magnitudes (str::parse::<Integer> *)
(* and the Display of Integer).  The binary side is held in limbs of 16    *)
(* bits, least significant first; the decimal side is read four digits at  *)
(* a time.                                                                 *)
(***************************************************************************)
LimbBase == 65536
ChunkDigits == 4

RECURSIVE DigitsValue(_, _, _)
\* the number written by the n digits of ds from 1-based position from on
DigitsValue(ds, from, n) ==
    IF n = 0 THEN 0
    ELSE 10 * DigitsValue(ds, from, n - 1) + DigitVal(ds[from + n - 1])

\* a * m + c on limbs that may each hold up to 2 * LimbBase - 1, for
\* m <= 10000 and c < 10000: every limb takes the low part of its product
\* and the high part of the product below it, and no carry runs further
MulAddStep(a, m, c) ==
    LET n == Len(a)
        top == IF n = 0 THEN c ELSE (a[n] * m) \div LimbBase
    IN  [i \in 1..(IF top = 0 THEN n ELSE n + 1) |->
            (IF i <= n THEN (a[i] * m) % LimbBase ELSE 0)
            + (IF i = 1 THEN c ELSE (a[i - 1] * m) \div LimbBase)] \o <<>>

RECURSIVE CarryOut(_, _)
\* whether limb i of r hands one to limb i + 1: only a limb that holds
\* LimbBase - 1 depends on the limbs below it
CarryOut(r, i) ==
    IF i = 0 THEN FALSE
    ELSE IF r[i] >= LimbBase THEN TRUE
    ELSE IF r[i] < LimbBase - 1 THEN FALSE
    ELSE CarryOut(r, i - 1)

\* the limbs of r, each below LimbBase
NormalizeLimbs(r) ==
    LET n == Len(r)
    IN  [i \in 1..(IF CarryOut(r, n) THEN n + 1 ELSE n) |->
            IF i <= n THEN (r[i] + (IF CarryOut(r, i - 1) THEN 1 ELSE 0)) % LimbBase
            ELSE 1] \o <<>>

\* a * m + c on limbs below LimbBase
MulAddLimbs(a, m, c) == NormalizeLimbs(MulAddStep(a, m, c))

RECURSIVE ParseChunks(_, _, _, _, _)
\* Horner's rule over the chunks lo..hi of ds, whose first chunk has r
\* digits, from the limbs acc of the chunks before lo; the range is halved
\* so that the evaluation stays shallow.
ParseChunks(ds, r, acc, lo, hi) ==
    IF lo > hi THEN acc
    ELSE IF lo = hi
    THEN LET from == IF lo = 1 THEN 1 ELSE r + (lo - 2) * ChunkDigits + 1
             n == IF lo = 1 THEN r ELSE ChunkDigits
         IN  MulAddStep(acc, 10 ^ n, DigitsValue(ds, from, n))
    ELSE LET mid == (lo + hi) \div 2
             left == ParseChunks(ds, r, acc, lo, mid)
         IN  IF Len(left) >= 0 THEN ParseChunks(ds, r, left, mid + 1, hi) ELSE acc

\* the magnitude written by the non-empty digit string ds
DecToMag(ds) ==
    LET n == Len(ds)
        r == ((n - 1) % ChunkDigits) + 1
        chunks == (n + ChunkDigits - 1) \div ChunkDigits
        limbs == NormalizeLimbs(ParseChunks(ds, r, <<>>, 1, chunks))
        bytes == [i \in 1..(2 * Len(limbs)) |->
                    LET l == limbs[Len(limbs) - ((i - 1) \div 2)]
                    IN  IF i % 2 = 1 THEN l \div 256 ELSE l % 256]
    IN  Normalize(bytes)

\* str::parse::<Integer>() followed by unwrap(): an optional '-' and digits
ParseInteger(s) ==
    LET neg == Len(s) >= 1 /\ s[1] = "-"
        ds == IF neg THEN Drop(s, 1) ELSE s
    IN  IF ds = <<>> \/ ~AllDigits(ds) THEN Panic
        ELSE OkValue(MkBig(neg, DecToMag(ds)))

\* the big-endian limbs of the magnitude m
MagToLimbs(m) ==
    LET k == (Len(m) + 1) \div 2
        pad == 2 * k - Len(m)
    IN  [i \in 1..k |->
            (IF 2 * i - 1 - pad >= 1 THEN m[2 * i - 1 - pad] ELSE 0) * 256
            + m[2 * i - pad]] \o <<>>

RECURSIVE DivLimbs(_, _, _, _, _)
\* the big-endian limbs lo..hi of a divided by d <= 32768, with the
\* remainder r carried in
DivLimbs(a, d, lo, hi, r) ==
    IF lo > hi THEN [q |-> <<>>, r |-> r]
    ELSE IF lo = hi
    THEN LET t == r * LimbBase + a[lo]
         IN  [q |-> <<t \div d>>, r |-> t % d]
    ELSE LET mid == (lo + hi) \div 2
             left == DivLimbs(a, d, lo, mid, r)
             right == DivLimbs(a, d, mid + 1, hi, left.r)
         IN  IF left.r >= 0 /\ right.r >= 0
             THEN [q |-> left.q \o right.q, r |-> right.r]
             ELSE [q |-> <<>>, r |-> 0]

\* the four digits of c < 10000
FourDigits(c) ==
    << DigitChars[(c \div 1000) + 1], DigitChars[((c \div 100) % 10) + 1],
       DigitChars[((c \div 10) % 10) + 1], DigitChars[(c % 10) + 1] >>

RECURSIVE DecChunks(_, _)
\* j divisions of the limbs a by 10000: the last quotient and the digits
DecChunks(a, j) ==
    IF j = 0 THEN [q |-> a, ds |-> <<>>]
    ELSE IF j = 1
    THEN LET d == DivLimbs(a, 10 ^ ChunkDigits, 1, Len(a), 0)
         IN  [q |-> d.q, ds |-> FourDigits(d.r)]
    ELSE LET first == DecChunks(a, j \div 2)
             second == DecChunks(first.q, j - (j \div 2))
         IN  IF Len(first.q) >= 0 /\ Len(second.q) >= 0
             THEN [q |-> second.q, ds |-> second.ds \o first.ds]
             ELSE [q |-> <<>>, ds |-> <<>>]

\* the text without its leading '0' characters
StripZeros(ds) ==
    LET nz == {i \in 1..Len(ds) : ds[i] # "0"}
    IN  IF nz = {} THEN <<>>
        ELSE Drop(ds, (CHOOSE k \in nz : \A j \in nz : k <= j) - 1)

\* the decimal digits of a magnitude (none for zero); a magnitude of n
\* bytes has at most 5n/8 + 1 groups of four digits
MagToDec(m) ==
    StripZeros(DecChunks(MagToLimbs(m), ((Len(m) * 5) \div 8) + 1).ds)

\* format!("{int:}")
FormatInteger(int) ==
    IF int.mag = <<>> THEN <<"0">>
    ELSE (IF int.neg THEN <<"-">> ELSE <<>>) \o MagToDec(int.mag)

\* format!("{num:}") of a natural number below 2^24
FormatNat(n) ==
    IF n = 0 THEN <<"0">>
    ELSE MagToDec(Normalize(<<n \div 65536, (n \div 256) % 256, n % 256>>))

(***************************************************************************)
(* Fraction codec.                                                         *)
(***************************************************************************)
\* the number written by s plus one, whether s has one digit or two
CentaryPlain(s) == DigitsValue(s, 1, Len(s)) + 1

\* s.parse::<u8>().unwrap() on one or two digits
centary_decimal_encode(s) ==
    IF Len(s) = 1
    THEN LET i == DigitsValue(s, 1, 1) IN i * 11 + 1
    ELSE LET i == DigitsValue(s, 1, Len(s))
             o == (i \div 10) + 1
         IN  i + o + 1

\* fraction: [some |-> FALSE] or [some |-> TRUE, str |-> digits]
encode_fraction(fraction) ==
    IF fraction.some
    THEN LET f == fraction.str
             len == Len(f)
             size == (len \div 2) + (IF len % 2 # 0 THEN 1 ELSE 0)
         IN  IF f = <<>> THEN <<0>>
             ELSE [k \in 1..size |->
                     LET i == k - 1
                         last == IF i * 2 + 2 > len THEN i * 2 + 1 ELSE i * 2 + 2
                         two == Slice(f, 2 * i, last)
                         this_int == (centary_decimal_encode(two) * 2) % 256
                     IN  IF i # size - 1 THEN BitOr(this_int, 1) ELSE this_int]
    ELSE <<0>>

\* the digits of i - 1 with no padding to two digits
CentaryDecodeUnpadded(i, oc) ==
    IF i = 0 /\ oc THEN Panic
    ELSE LET j == IF i = 0 THEN 255 ELSE i - 1
         IN  IF j % 11 = 0 THEN OkValue(FormatNat(j \div 11))
             ELSE OkValue(FormatNat(j - (j \div 11) - 1))

\* i - 1 on a u8 panics when i = 0 and overflow checks are on (oc), and
\* wraps to 255 when they are off.
centary_decimal_decode(i, oc) ==
    IF i = 0 /\ oc THEN Panic
    ELSE LET j == IF i = 0 THEN 255 ELSE i - 1
         IN  IF j % 11 = 0
             THEN OkValue(FormatNat(j \div 11))
             ELSE LET d == j \div 11
                      num == j - d - 1
                      text == FormatNat(num)
                  IN  OkValue(IF Len(text) < 2 THEN <<"0">> \o text ELSE text)

RECURSIVE DecodeFractionLoop(_, _, _, _)
DecodeFractionLoop(fraction_vec, k, s, oc) ==
    IF k > Len(fraction_vec) THEN OkValue(s)
    ELSE LET byte == fraction_vec[k]
             num == byte \div 2
             res == centary_decimal_decode(num, oc)
         IN  IF res.tag = "Panic" THEN Panic
             ELSE IF Len(res.value) = 1 \/ BitAnd(byte, 1) = 0
             THEN OkValue(s \o res.value)
             ELSE DecodeFractionLoop(fraction_vec, k + 1, s \o res.value, oc)

decode_fraction(fraction_vec, oc) ==
    IF fraction_vec = <<0>> THEN OkValue(<<>>)
    ELSE DecodeFractionLoop(fraction_vec, 1, <<>>, oc)

(***************************************************************************)
(* BigNum (Decimal) codec.                                                 *)
(***************************************************************************)
bignum_to_storage(bignum, a) ==
    LET storage_type == aspect_storage(a)
        parts == SplitDot(bignum)
        bigint == parts.first
        fraction == parts.second
        parsed == ParseInteger(bigint)
        integer_part == parsed.value
        is_neg == Len(bignum) >= 1 /\ bignum[1] = "-"
        prefix == IF integer_part.mag = <<>> /\ is_neg
                  THEN <<aspect_byte(a), NEGATIVE_ZERO>>
                  ELSE bigint_to_storage(integer_part, a).bytes
        suffix == IF is_neg THEN NotAll(encode_fraction(fraction))
                  ELSE encode_fraction(fraction)
    IN  IF storage_type = "Panic" THEN Panic
        ELSE IF storage_type # "BigNum" THEN Err("UnexpectedAspect")
        ELSE IF parsed.tag = "Panic" THEN Panic
        ELSE IF fraction.some /\ ~AllDigits(fraction.str) THEN Panic
        ELSE OkBytes(prefix \o suffix)

storage_to_bignum(bytes, oc) ==
    LET end == Len(bytes)
        int_result == storage_to_bigint(bytes)
        sd == size_decode(bytes)
        is_pos == sd.sign
        start == sd.size + sd.idx
        fraction_bytes == Slice(bytes, start, end)
        fraction_result == IF is_pos THEN decode_fraction(fraction_bytes, oc)
                           ELSE decode_fraction(NotAll(fraction_bytes), oc)
        int == int_result.value
        fraction == fraction_result.value
        sign == IF int.mag = <<>> /\ ~is_pos THEN <<"-">> ELSE <<>>
    IN  IF int_result.tag = "Panic" THEN Panic
        ELSE IF start > end THEN Panic
        ELSE IF fraction_result.tag = "Panic" THEN Panic
        ELSE IF fraction = <<>> THEN OkValue(FormatInteger(int))
        ELSE OkValue(sign \o FormatInteger(int) \o <<".">> \o fraction)

(***************************************************************************)
(* Fixed-width integers.  An i32 is an integer of the model; an i64 is     *)
(* four limbs of 16 bits, most significant first, the first one signed.    *)
(***************************************************************************)
BYTE_SIGN_MASK == 128

\* the two bytes of a limb, the first one taken modulo 2^16
LimbBytes(l) == << ((l + LimbBase) % LimbBase) \div 256, l % 256 >>

\* the first byte left as it is
FlipSignKept(bytes) == bytes

\* wtr[1] ^= BYTE_SIGN_MASK
FlipSign(bytes) ==
    [i \in 1..Len(bytes) |->
        IF i = 1 THEN BitXor(bytes[1], BYTE_SIGN_MASK) ELSE bytes[i]]

\* write_i32::<BigEndian>
I32Bytes(i) ==
    LET low == i % (2 ^ 24)
    IN  << ((i \div (2 ^ 24)) + 256) % 256, low \div 65536,
           (low \div 256) % 256, low % 256 >>

\* write_i64::<BigEndian>
I64Bytes(i) ==
    LimbBytes(i[1]) \o LimbBytes(i[2]) \o LimbBytes(i[3]) \o LimbBytes(i[4])

\* numeric order of two i64
I64Less(x, y) == LexLess(x, y)

int32_to_storage(i, a) ==
    LET storage_type == aspect_storage(a)
    IN  IF storage_type = "Panic" THEN Panic
        ELSE IF storage_type = "Int32"
        THEN OkBytes(<<aspect_byte(a)>> \o FlipSign(I32Bytes(i)))
        ELSE Err("UnexpectedAspect")

storage_to_int32(bytes) ==
    IF bytes = <<>> THEN Panic
    ELSE LET vec == FlipSign(bytes)
         IN  IF Len(vec) < 4 THEN Err("BadInt32Layout")
             ELSE OkValue((vec[1] - (IF vec[1] >= 128 THEN 256 ELSE 0)) * (2 ^ 24)
                          + vec[2] * 65536 + vec[3] * 256 + vec[4])

int64_to_storage(i, a) ==
    LET storage_type == aspect_storage(a)
    IN  IF storage_type = "Panic" THEN Panic
        ELSE IF storage_type = "Int64" \/ storage_type = "DateTime"
        THEN OkBytes(<<aspect_byte(a)>> \o FlipSign(I64Bytes(i)))
        ELSE Err("UnexpectedAspect")

\* read_i64::<BigEndian>
I64FromBytes(vec) ==
    << (vec[1] - (IF vec[1] >= 128 THEN 256 ELSE 0)) * 256 + vec[2],
       vec[3] * 256 + vec[4], vec[5] * 256 + vec[6], vec[7] * 256 + vec[8] >>

storage_to_int64(bytes) ==
    IF bytes = <<>> THEN Panic
    ELSE LET vec == FlipSign(bytes)
         IN  IF Len(vec) < 8 THEN Err("BadInt64Layout")
             ELSE OkValue(I64FromBytes(vec))

(***************************************************************************)
(* Floats.  An f32 or f64 is its IEEE-754 bit pattern (to_bits), written   *)
(* as its four or eight bytes, most significant first; the masks are       *)
(* written the same way.                                                   *)
(***************************************************************************)
F32_SIGN_MASK == <<128, 0, 0, 0>>
\* a complement mask that changes the sign bit alone
SignOnlyComplement == <<128, 0, 0, 0>>
F32_COMPLEMENT == <<255, 255, 255, 255>>
F64_SIGN_MASK == <<128, 0, 0, 0, 0, 0, 0, 0>>
F64_COMPLEMENT == <<255, 255, 255, 255, 255, 255, 255, 255>>

\* bits ^ mask
XorBits(bits, mask) == [i \in 1..Len(bits) |-> BitXor(bits[i], mask[i])]

\* bits & mask > 0
AndBitsPositive(bits, mask) == \E i \in 1..Len(bits) : BitAnd(bits[i], mask[i]) # 0

\* f64::is_nan: all eleven exponent bits set and a mantissa that is not zero
IsNaN64(bits) ==
    /\ BitAnd(bits[1], 127) = 127
    /\ BitAnd(bits[2], 240) = 240
    /\ (BitAnd(bits[2], 15) # 0 \/ \E i \in 3..8 : bits[i] # 0)

\* f32::is_nan: all eight exponent bits set and a mantissa that is not zero
IsNaN32(bits) ==
    /\ BitAnd(bits[1], 127) = 127
    /\ BitAnd(bits[2], 128) = 128
    /\ (BitAnd(bits[2], 127) # 0 \/ bits[3] # 0 \/ bits[4] # 0)

\* f.signum() == -1.0: signum is NaN for a NaN, and otherwise 1.0 with the
\* sign of f, the sign of -0.0 included
SignumIsMinusOne(bits) == ~IsNaN64(bits) /\ AndBitsPositive(bits, F64_SIGN_MASK)

float32_to_storage(f, a) ==
    LET storage_type == aspect_storage(a)
        g == IF AndBitsPositive(f, F32_SIGN_MASK)
             THEN XorBits(f, F32_COMPLEMENT)
             ELSE XorBits(f, F32_SIGN_MASK)
    IN  IF storage_type = "Panic" THEN Panic
        ELSE IF storage_type = "Float32" THEN OkBytes(<<aspect_byte(a)>> \o g)
        ELSE Err("UnexpectedAspect")

\* read_f32 fails when fewer than four bytes are left
storage_to_float32(bytes) ==
    IF Len(bytes) < 4 THEN Err("BadFloat32Layout")
    ELSE LET f == Slice(bytes, 0, 4)
         IN  OkValue(IF AndBitsPositive(f, F32_SIGN_MASK)
                     THEN XorBits(f, F32_SIGN_MASK)
                     ELSE XorBits(f, F32_COMPLEMENT))

float64_to_storage(f, a) ==
    LET storage_type == aspect_storage(a)
        g == IF SignumIsMinusOne(f)
             THEN XorBits(f, F64_COMPLEMENT)
             ELSE XorBits(f, F64_SIGN_MASK)
    IN  IF storage_type = "Panic" THEN Panic
        ELSE IF storage_type = "Float64" THEN OkBytes(<<aspect_byte(a)>> \o g)
        ELSE Err("UnexpectedAspect")

\* read_f64 fails when fewer than eight bytes are left
storage_to_float64(bytes) ==
    IF Len(bytes) < 8 THEN Err("BadFloat64Layout")
    ELSE LET f == Slice(bytes, 0, 8)
         IN  OkValue(IF SignumIsMinusOne(f)
                     THEN XorBits(f, F64_SIGN_MASK)
                     ELSE XorBits(f, F64_COMPLEMENT))

(***************************************************************************)
(* DateTime: chrono's DateTime::parse_from_rfc3339, DateTime::timestamp,   *)
(* NaiveDateTime::from_timestamp and format("%Y-%m-%dT%H:%M:%SZ").  The    *)
(* texts read are YYYY-MM-DDTHH:MM:SS, an optional fraction of a second    *)
(* and Z or a numeric offset.                                              *)
(***************************************************************************)
SecondsPerDay == 86400

\* the number written by the two characters of s after position from
Num2(s, from) == DigitsValue(s, from + 1, 2)

IsLeap(y) == (y % 4 = 0 /\ y % 100 # 0) \/ y % 400 = 0

DaysInMonth(y, m) ==
    IF m = 2 THEN (IF IsLeap(y) THEN 29 ELSE 28)
    ELSE IF m \in {4, 6, 9, 11} THEN 30 ELSE 31

\* days since 1970-01-01 of a date of the proleptic Gregorian calendar
days_from_civil(y, m, d) ==
    LET yy == IF m <= 2 THEN y - 1 ELSE y
        era == yy \div 400
        yoe == yy - era * 400
        doy == ((153 * (IF m > 2 THEN m - 3 ELSE m + 9) + 2) \div 5) + d - 1
        doe == yoe * 365 + (yoe \div 4) - (yoe \div 100) + doy
    IN  era * 146097 + doe - 719468

\* the date of a number of days since 1970-01-01
civil_from_days(z0) ==
    LET z == z0 + 719468
        era == z \div 146097
        doe == z - era * 146097
        yoe == (doe - (doe \div 1460) + (doe \div 36524) - (doe \div 146096)) \div 365
        doy == doe - (365 * yoe + (yoe \div 4) - (yoe \div 100))
        mp == (5 * doy + 2) \div 153
        d == doy - ((153 * mp + 2) \div 5) + 1
        m == IF mp < 10 THEN mp + 3 ELSE mp - 9
    IN  [y |-> yoe + era * 400 + (IF m <= 2 THEN 1 ELSE 0), m |-> m, d |-> d]

\* the offset in seconds written by the zone z, or "bad"
ParseZone(z) ==
    IF z = <<"Z">> \/ z = <<"z">> THEN [ok |-> TRUE, off |-> 0]
    ELSE IF /\ Len(z) = 6
            /\ z[1] \in {"+", "-"}
            /\ z[4] = ":"
            /\ \A i \in {2, 3, 5, 6} : IsDigit(z[i])
            /\ Num2(z, 1) < 24
            /\ Num2(z, 4) < 60
    THEN [ok |-> TRUE,
          off |-> (IF z[1] = "-" THEN -1 ELSE 1) * (Num2(z, 1) * 3600 + Num2(z, 4) * 60)]
    ELSE [ok |-> FALSE, off |-> 0]

\* DateTime::parse_from_rfc3339: the day number and the second of the day
\* less the offset, or ok = FALSE
ParseRfc3339(s) ==
    LET shape == /\ Len(s) >= 20
                 /\ \A i \in {1, 2, 3, 4, 6, 7, 9, 10, 12, 13, 15, 16, 18, 19} :
                        IsDigit(s[i])
                 /\ s[5] = "-" /\ s[8] = "-" /\ s[11] \in {"T", "t"}
                 /\ s[14] = ":" /\ s[17] = ":"
        y == DigitsValue(s, 1, 4)
        mo == Num2(s, 5)
        d == Num2(s, 8)
        h == Num2(s, 11)
        mi == Num2(s, 14)
        sec == Num2(s, 17)
        frac == IF s[20] = "."
                THEN {i \in 21..Len(s) : \A j \in 21..i : IsDigit(s[j])}
                ELSE {}
        zone == IF s[20] = "." THEN Drop(s, 20 + Cardinality(frac)) ELSE Drop(s, 19)
        z == ParseZone(zone)
    IN  IF /\ shape
           /\ mo \in 1..12 /\ d >= 1 /\ d <= DaysInMonth(y, mo)
           /\ h < 24 /\ mi < 60 /\ sec <= 60
           /\ (s[20] = "." => frac # {})
           /\ z.ok
        THEN [ok |-> TRUE, days |-> days_from_civil(y, mo, d),
              secs |-> h * 3600 + mi * 60 + (IF sec = 60 THEN 59 ELSE sec) - z.off]
        ELSE [ok |-> FALSE, days |-> 0, secs |-> 0]

\* days * 86400 + secs as an i64, for 0 <= secs < 86400 after the whole
\* days of secs were moved into days; a negative result is the complement
\* of its magnitude less one
Timestamp(days0, secs0) ==
    LET days == days0 + (secs0 \div SecondsPerDay)
        secs == secs0 % SecondsPerDay
        neg == days < 0
        dd == IF neg THEN -days - 1 ELSE days
        ss == IF neg THEN SecondsPerDay - 1 - secs ELSE secs
        le == MulAddLimbs(MulAddLimbs(<<dd % LimbBase, dd \div LimbBase>>,
                                      675, ss \div 128), 128, ss % 128)
        u == [i \in 1..4 |->
                LET l == IF 5 - i <= Len(le) THEN le[5 - i] ELSE 0
                IN  IF neg THEN LimbBase - 1 - l ELSE l]
    IN  << IF u[1] >= LimbBase \div 2 THEN u[1] - LimbBase ELSE u[1],
           u[2], u[3], u[4] >>

date_time_to_storage(s, a) ==
    LET parsed == ParseRfc3339(s)
    IN  IF parsed.ok
        THEN int64_to_storage(Timestamp(parsed.days, parsed.secs), a)
        ELSE Err("BadDateFormat")

Pad2(n) == << DigitChars[(n \div 10) + 1], DigitChars[(n % 10) + 1] >>

\* %Y: four digits, and a sign before the years outside 0..9999
FormatYear(y) ==
    LET abs == IF y < 0 THEN -y ELSE y
        ds == FormatNat(abs)
        padded == [i \in 1..(4 - Len(ds)) |-> "0"] \o ds
    IN  IF y \in 0..9999 THEN padded
        ELSE (IF y < 0 THEN <<"-">> ELSE <<"+">>) \o padded

\* NaiveDateTime::from_timestamp(i, 0) panics on a date out of its range
storage_to_date_time(bytes) ==
    LET res == storage_to_int64(bytes)
        i == res.value
        neg == i[1] < 0
        u == [k \in 1..4 |->
                IF neg THEN (IF k = 1 THEN -1 - i[1] ELSE LimbBase - 1 - i[k])
                ELSE i[k]]
        q128 == DivLimbs(u, 128, 1, 4, 0)
        q675 == DivLimbs(q128.q, 675, 1, 4, 0)
        mag == q675.q
        daysMag == mag[3] * LimbBase + mag[4]
        secsMag == q675.r * 128 + q128.r
        days == IF neg THEN -daysMag - 1 ELSE daysMag
        secs == IF neg THEN SecondsPerDay - 1 - secsMag ELSE secsMag
        date == civil_from_days(days)
    IN  IF res.tag # "Ok" THEN res
        ELSE IF mag[1] # 0 \/ mag[2] # 0 \/ mag[3] >= 2048 THEN Panic
        ELSE IF date.y < -262144 \/ date.y > 262143 THEN Panic
        ELSE OkValue(FormatYear(date.y) \o <<"-">> \o Pad2(date.m)
                     \o <<"-">> \o Pad2(date.d) \o <<"T">>
                     \o Pad2(secs \div 3600) \o <<":">>
                     \o Pad2((secs \div 60) % 60) \o <<":">>
                     \o Pad2(secs % 60) \o <<"Z">>)

(***************************************************************************)
(* Strings.  The texts of the model are made of printable ASCII            *)
(* characters, whose UTF-8 encoding is one byte each; the quote, the       *)
(* backslash and the backtick are written by their names.                  *)
(***************************************************************************)
Chars ==
    << " ", "!", "QUOTE", "#", "$", "%", "&", "'", "(", ")", "*", "+", ",", "-",
       ".", "/", "0", "1", "2", "3", "4", "5", "6", "7", "8", "9", ":", ";",
       "<", "=", ">", "?", "@", "A", "B", "C", "D", "E", "F", "G", "H", "I",
       "J", "K", "L", "M", "N", "O", "P", "Q", "R", "S", "T", "U", "V", "W",
       "X", "Y", "Z", "[", "BACKSLASH", "]", "^", "_", "BACKTICK", "a", "b", "c", "d", "e",
       "f", "g", "h", "i", "j", "k", "l", "m", "n", "o", "p", "q", "r", "s",
       "t", "u", "v", "w", "x", "y", "z", "{", "|", "}", "~" >>

\* String::into_bytes
into_bytes(v) ==
    [i \in 1..Len(v) |-> 31 + (CHOOSE k \in 1..Len(Chars) : Chars[k] = v[i])]

string_to_storage(v, a) ==
    LET storage_type == aspect_storage(a)
    IN  IF storage_type = "Panic" THEN Panic
        ELSE IF storage_type = "String"
        THEN OkBytes(<<aspect_byte(a)>> \o into_bytes(v))
        ELSE Err("UnexpectedAspect")

\* from_utf8(..).expect(..) on bytes of printable ASCII characters and of
\* the character of code 0, written "NUL"; the other bytes of the model, 128
\* and above, stand in runs of one value, which is no UTF-8
string_from_bytes(bytes) ==
    IF \A i \in 1..Len(bytes) : bytes[i] \in {0} \cup 32..126
    THEN OkValue([i \in 1..Len(bytes) |->
                    IF bytes[i] = 0 THEN "NUL" ELSE Chars[bytes[i] - 31]])
    ELSE Panic

string_length(bytes) ==
    LET z == {i \in 1..Len(bytes) : bytes[i] = 0}
    IN  IF z = {} THEN Len(bytes)
        ELSE (CHOOSE k \in z : \A j \in z : k <= j) - 1

(***************************************************************************)
(* The public interface.  A value is [kind, v]: a text for String, a       *)
(* [neg, mag] for BigInt, an integer for Int32, four limbs for Int64, the  *)
(* bytes of the bit pattern for Float32 and Float64, a boolean for         *)
(* Boolean.                                                                *)
(***************************************************************************)
value_to_storage(v, a) ==
    CASE v.kind = "String" ->
            IF a = "DateTime" THEN date_time_to_storage(v.v, a)
            ELSE IF a = "Decimal" THEN bignum_to_storage(v.v, a)
            ELSE string_to_storage(v.v, a)
      [] v.kind = "Int32" -> int32_to_storage(v.v, a)
      [] v.kind = "BigInt" -> bigint_to_storage(v.v, a)
      [] v.kind = "Int64" -> int64_to_storage(v.v, a)
      [] v.kind = "Float32" -> float32_to_storage(v.v, a)
      [] v.kind = "Float64" -> float64_to_storage(v.v, a)
      [] v.kind = "Boolean" ->
            IF a = "Boolean"
            THEN OkBytes(<<aspect_byte(IF v.v THEN "True" ELSE "False")>>)
            ELSE Err("UnexpectedAspect")

\* .map(|r| (r, aspect)) on the result of a decoder of the storage type
WithAspect(res, kind, a) ==
    IF res.tag = "Ok"
    THEN [tag |-> "Ok", value |-> [kind |-> kind, v |-> res.value], aspect |-> a]
    ELSE res

\* oc: whether the build checks arithmetic overflow
storage_to_value(bytes, oc) ==
    IF bytes = <<>> THEN Panic
    ELSE LET aspect == byte_aspect(bytes[1])
             ty == aspect_storage(aspect)
             rest == Drop(bytes, 1)
         IN  IF aspect = "Panic" THEN Panic
             ELSE IF aspect = "True" THEN WithAspect(OkValue(TRUE), "Boolean", "Boolean")
             ELSE IF aspect = "False" THEN WithAspect(OkValue(FALSE), "Boolean", "Boolean")
             ELSE CASE ty = "String" -> WithAspect(string_from_bytes(rest), "String", aspect)
                    [] ty = "Int32" -> WithAspect(storage_to_int32(rest), "Int32", aspect)
                    [] ty = "Int64" -> WithAspect(storage_to_int64(rest), "Int64", aspect)
                    [] ty = "Float32" ->
                         WithAspect(storage_to_float32(rest), "Float32", aspect)
                    [] ty = "Float64" ->
                         WithAspect(storage_to_float64(rest), "Float64", aspect)
                    [] ty = "BigInt" -> WithAspect(storage_to_bigint(rest), "BigInt", aspect)
                    [] ty = "BigNum" ->
                         WithAspect(storage_to_bignum(rest, oc), "String", aspect)
                    [] ty = "DateTime" ->
                         WithAspect(storage_to_date_time(rest), "String", aspect)
                    [] OTHER -> Panic

storage_size(bytes) ==
    IF bytes = <<>> THEN Panic
    ELSE LET a == byte_aspect(bytes[1])
             storage_type == aspect_storage(a)
             rest == Drop(bytes, 1)
             sd == size_decode(rest)
             offset == sd.size + sd.idx + 1
             even == {i \in offset..(Len(bytes) - 1) : BitAnd(bytes[i + 1], 1) # 1}
             count == IF even = {}
                      THEN (IF Len(bytes) > offset THEN Len(bytes) - offset ELSE 0)
                      ELSE (CHOOSE k \in even : \A j \in even : k <= j) - offset + 1
         IN  IF a = "Panic" THEN Panic
             ELSE CASE storage_type = "String" -> OkValue(1 + string_length(rest))
                    [] storage_type = "Int32" -> OkValue(5)
                    [] storage_type = "Int64" -> OkValue(9)
                    [] storage_type = "Float32" -> OkValue(5)
                    [] storage_type = "Float64" -> OkValue(9)
                    [] storage_type = "BigInt" -> OkValue(sd.size + sd.idx + 1)
                    [] storage_type = "BigNum" -> OkValue(count + offset)
                    [] storage_type = "DateTime" -> OkValue(9)
                    [] OTHER -> Panic

(***************************************************************************)
(* The state: the last operation (op), the value and the aspect last       *)
(* given to an encoder (val, asp), its result (rec), the bytes that follow *)
(* the record in the buffer handed to a decoder (garbage), and the result  *)
(* of the last decoder or size computation (out).                          *)
(***************************************************************************)
NoValue == [kind |-> "None", v |-> 0]
NoResult == [tag |-> "None"]

\* the values of a kind whose contents are in S
Values(kind, S) == {[kind |-> kind, v |-> x] : x \in S}

Init ==
    /\ op = "init"
    /\ val = NoValue
    /\ asp = "None"
    /\ rec = NoResult
    /\ garbage = <<>>
    /\ out = NoResult

\* the bytes that may follow a record
GarbageBytes == {0, 35, 255}

\* runs of 1..MaxGarbage equal bytes
Garbage == {[i \in 1..n |-> b] : b \in GarbageBytes, n \in 1..MaxGarbage}

\* value_to_storage(v, a)
ValueToStorage(v, a) ==
    /\ op' = "value_to_storage"
    /\ val' = v
    /\ asp' = a
    /\ rec' = value_to_storage(v, a)
    /\ garbage' = <<>>
    /\ out' = NoResult

\* the caller appends the bytes g to the buffer that holds the record
Extend(g) ==
    /\ rec.tag = "Ok"
    /\ garbage = <<>>
    /\ op' = "extend"
    /\ garbage' = g
    /\ out' = NoResult
    /\ UNCHANGED <<val, asp, rec>>

\* storage_to_value(buffer), in a build with or without overflow checks
StorageToValue ==
    /\ rec.tag = "Ok"
    /\ op' = "storage_to_value"
    /\ \E oc \in BOOLEAN : out' = storage_to_value(rec.bytes \o garbage, oc)
    /\ UNCHANGED <<val, asp, rec, garbage>>

\* storage_size(buffer)
StorageSize ==
    /\ rec.tag = "Ok"
    /\ op' = "storage_size"
    /\ out' = storage_size(rec.bytes \o garbage)
    /\ UNCHANGED <<val, asp, rec, garbage>>

(***************************************************************************)
(* The size code on its own.                                               *)
(***************************************************************************)
SizeInputs ==
    (0..MaxSmallSize)
    \cup {2 ^ k + d : k \in 7..MaxSizeBits, d \in {-1, 0, 1}}


\* size_encode(n)
SizeEncode(n) ==
    /\ op' = "size_encode"
    /\ val' = [kind |-> "Size", v |-> n]
    /\ asp' = "None"
    /\ rec' = OkBytes(size_encode(n))
    /\ garbage' = <<>>
    /\ out' = NoResult

\* size_decode of the code read in wire order
SizeDecode ==
    /\ val.kind = "Size"
    /\ op' = "size_decode"
    /\ out' = OkValue(size_decode(Reverse(rec.bytes)))
    /\ UNCHANGED <<val, asp, rec, garbage>>

NextSize ==
    \/ \E n \in SizeInputs : SizeEncode(n)
    \/ SizeDecode

SpecSize == Init /\ [][NextSize]_vars

\* size_decode of the bytewise complement of the code read in wire order,
\* the size code that bigint_to_storage writes for a negative number
SizeDecodeNegative ==
    /\ val.kind = "Size"
    /\ op' = "size_decode_negative"
    /\ out' = OkValue(size_decode(NotAll(Reverse(rec.bytes))))
    /\ UNCHANGED <<val, asp, rec, garbage>>

NextSizeSigned ==
    \/ NextSize
    \/ SizeDecodeNegative

SpecSizeSigned == Init /\ [][NextSizeSigned]_vars

(***************************************************************************)
(* BigInt records.                                                         *)
(***************************************************************************)
BigIntAspects == {"Integer", "PositiveInteger", "NonNegativeInteger"}

\* the magnitude of a natural number below 2^24
NatMag(n) == Normalize(<<n \div 65536, (n \div 256) % 256, n % 256>>)

\* a magnitude of len bytes with the given first and last byte
PatternMag(len, first, last) ==
    [i \in 1..len |-> IF i = 1 THEN first ELSE IF i = len THEN last ELSE 85]

\* both signs of the magnitudes of M
Signed(M) ==
    {[neg |-> FALSE, mag |-> m] : m \in M}
    \cup {[neg |-> TRUE, mag |-> m] : m \in M \ {<<>>}}

SmallMags ==
    {NatMag(n) : n \in 0..MaxSmallInt}
    \cup {NatMag(n) : n \in {127, 128, 255, 256, 3233, 32767, 32768, 65535, 65536}}

\* magnitudes around the first size that needs a size code of two bytes
WideMags ==
    {PatternMag(len, first, last) :
        len \in (WideBytes - 1)..WideBytes, first \in {1, 128}, last \in {0, 1}}

BigIntInputs ==
    {[kind |-> "BigInt", v |-> b] : b \in Signed(SmallMags \cup WideMags)}

NextBigInt ==
    \/ \E v \in BigIntInputs, a \in BigIntAspects : ValueToStorage(v, a)
    \/ \E g \in Garbage : Extend(g)
    \/ StorageToValue
    \/ StorageSize

SpecBigInt == Init /\ [][NextBigInt]_vars

\* magnitudes whose size codes have two and three bytes
HugeMags ==
    {PatternMag(len, 1, 1) : len \in {MidBytes, HugeBytes}}

BigIntWideInputs ==
    {[kind |-> "BigInt", v |-> b] :
        b \in Signed({NatMag(n) : n \in 0..MaxSmallInt} \cup HugeMags)}

NextBigIntWide ==
    \/ \E v \in BigIntWideInputs : ValueToStorage(v, "Integer")
    \/ \E g \in Garbage : Extend(g)
    \/ StorageToValue
    \/ StorageSize

SpecBigIntWide == Init /\ [][NextBigIntWide]_vars

(***************************************************************************)
(* Decimal records.                                                        *)
(***************************************************************************)
\* the text of n characters c
Rep(c, n) == [i \in 1..n |-> c]

\* the digits of a canonical integer of n digits
LongDigits(n) == <<"1">> \o Rep("7", n - 1)

DecIntParts ==
    { <<"0">>, <<"5">>, <<"1", "0">>, <<"2", "5", "5">>, <<"3", "2", "3", "3">> }

\* no fraction, an empty fraction, and fractions of one, two and three bytes
DecSuffixes ==
    { <<>>, <<".">>, <<".", "0">>, <<".", "3">>, <<".", "0", "0">>,
      <<".", "0", "1">>, <<".", "1", "0">>, <<".", "1", "0", "0">>,
      <<".", "0", "0", "1">>, <<".", "1", "2", "3">>,
      <<".", "2", "3", "4", "2", "3">> }

\* texts whose integer part takes 64 bytes or more
WideDecTexts ==
    { LongDigits(WideDigits), <<"-">> \o LongDigits(WideDigits) \o <<".", "5">> }

DecimalTexts ==
    {sign \o i \o f : sign \in {<<>>, <<"-">>}, i \in DecIntParts, f \in DecSuffixes}
    \cup WideDecTexts

DecimalInputs == {[kind |-> "String", v |-> t] : t \in DecimalTexts}

NextDecimal ==
    \/ \E v \in DecimalInputs : ValueToStorage(v, "Decimal")
    \/ \E g \in Garbage : Extend(g)
    \/ StorageToValue
    \/ StorageSize

SpecDecimal == Init /\ [][NextDecimal]_vars

\* the sign, the integer digits without leading zeros and the fraction
\* digits without trailing zeros of a decimal text, as numbers
DecimalKey(t) ==
    LET neg == Len(t) >= 1 /\ t[1] = "-"
        parts == SplitDot(IF neg THEN Drop(t, 1) ELSE t)
        int == StripZeros(parts.first)
        frac == IF parts.second.some
                THEN Reverse(StripZeros(Reverse(parts.second.str)))
                ELSE <<>>
    IN  [neg |-> neg,
         int |-> [i \in 1..Len(int) |-> DigitVal(int[i])],
         frac |-> [i \in 1..Len(frac) |-> DigitVal(frac[i])]]

\* the order of the absolute values of two keys
KeyMagLess(x, y) ==
    \/ Len(x.int) < Len(y.int)
    \/ Len(x.int) = Len(y.int) /\ LexLess(x.int, y.int)
    \/ x.int = y.int /\ LexLess(x.frac, y.frac)

\* numeric order of two decimal texts, every text with a leading '-' being
\* below every text without one
DecimalLess(s, t) ==
    LET x == DecimalKey(s)
        y == DecimalKey(t)
    IN  IF x.neg /\ y.neg THEN KeyMagLess(y, x)
        ELSE IF x.neg THEN TRUE
        ELSE IF y.neg THEN FALSE
        ELSE KeyMagLess(x, y)

\* a text whose integer part takes HugeBytes bytes or more
HugeDecimal == [kind |-> "String", v |-> LongDigits(HugeDigits)]

\* texts whose integer parts take less, MidBytes bytes or more among them
NarrowDecimalInputs ==
    {[kind |-> "String", v |-> t] :
        t \in { LongDigits(MidDigits), <<"-">> \o LongDigits(MidDigits),
                LongDigits(MidDigits) \o <<".", "5">>,
                LongDigits(WideDigits), <<"-">> \o LongDigits(WideDigits),
                <<"0">>, <<"5">>, <<"-", "5">>, <<"5", ".", "3">>,
                <<"-", "5", ".", "3">>, <<"-", "0", ".", "0">>,
                <<"0", ".", "0", "0", "1">>, <<"2", "5", "5">>,
                <<"-", "2", "5", "5">>, <<"3", "2", "3", "3", ".", "1", "2", "3">>,
                <<"-", "3", "2", "3", "3", ".", "1", "2", "3">> }}

\* the state after the text HugeDecimal was encoded
InitDecimalWide ==
    /\ op = "value_to_storage"
    /\ val = HugeDecimal
    /\ asp = "Decimal"
    /\ rec = value_to_storage(HugeDecimal, "Decimal")
    /\ garbage = <<>>
    /\ out = NoResult

NextDecimalWide ==
    \/ \E v \in NarrowDecimalInputs : ValueToStorage(v, "Decimal")
    \/ \E g \in Garbage : Extend(g)
    \/ StorageSize

SpecDecimalWide == InitDecimalWide /\ [][NextDecimalWide]_vars

(***************************************************************************)
(* Fixed-width records: Int32, Int64 and DateTime.                         *)
(***************************************************************************)
Int32Aspects == {"Int", "Short", "Byte"}

\* the i32 within Span of the ends of the range and of the values where a
\* byte of the record changes
I32Inputs ==
    {(-2147483647 - 1) + d : d \in 0..Span}
    \cup {2147483647 - d : d \in 0..Span}
    \cup {b + d : b \in {-16777216, -256, 0, 256, 16777216}, d \in (-Span)..Span}

I64Inputs ==
    {<<t, m, m, l>> : t \in {-32768, -1, 0, 32767}, m \in {0, 65535},
                      l \in (0..Span) \cup {65535}}

\* the text of a date, a time of day and a zone
DateText(y, mo, d, h, mi, sec, zone) ==
    FormatYear(y) \o <<"-">> \o Pad2(mo) \o <<"-">> \o Pad2(d) \o <<"T">>
    \o Pad2(h) \o <<":">> \o Pad2(mi) \o <<":">> \o Pad2(sec) \o zone

DateTimeTexts ==
    {DateText(y, md[1], md[2], t[1], t[2], t[3], zone) :
        y \in {1969, 1970, 2525}, md \in {<<1, 1>>, <<12, 31>>},
        t \in {<<0, 0, 0>>, <<23, 59, 59>>},
        zone \in {<<"Z">>, <<"+", "0", "1", ":", "3", "0">>}}

NextFixed ==
    \/ \E v \in Values("Int32", I32Inputs), a \in Int32Aspects : ValueToStorage(v, a)
    \/ \E v \in Values("Int64", I64Inputs) : ValueToStorage(v, "Long")
    \/ \E v \in Values("String", DateTimeTexts) : ValueToStorage(v, "DateTime")
    \/ \E g \in Garbage : Extend(g)
    \/ StorageToValue
    \/ StorageSize

SpecFixed == Init /\ [][NextFixed]_vars

\* the seconds since the epoch of an RFC 3339 text
TimestampOf(t) ==
    LET parsed == ParseRfc3339(t) IN Timestamp(parsed.days, parsed.secs)

\* the order of two values of the same fixed-width kind
FixedLess(v, w) ==
    CASE v.kind = "Int32" -> v.v < w.v
      [] v.kind = "Int64" -> I64Less(v.v, w.v)
      [] v.kind = "String" -> I64Less(TimestampOf(v.v), TimestampOf(w.v))

(***************************************************************************)
(* Float records.                                                          *)
(***************************************************************************)
\* f32 bit patterns: both signs; the exponents of zero and the subnormals,
\* the smallest and the largest normal exponent, 127, and the exponent of
\* the infinities and the NaNs; the mantissas 0, 1, the quiet bit alone
\* and all ones
F32Inputs ==
    {<<s * 128 + (e \div 2), (e % 2) * 128 + m[1], m[2], m[3]>> :
        s \in {0, 1}, e \in {0, 1, 127, 254, 255},
        m \in {<<0, 0, 0>>, <<0, 0, 1>>, <<64, 0, 0>>, <<127, 255, 255>>}}

\* f64 bit patterns chosen the same way
F64Inputs ==
    {<<s * 128 + (e \div 16), (e % 16) * 16 + m[1], m[2], m[2], m[2], m[2], m[2], m[3]>> :
        s \in {0, 1}, e \in {0, 1, 1023, 2046, 2047},
        m \in {<<0, 0, 0>>, <<0, 0, 1>>, <<8, 0, 0>>, <<15, 255, 255>>}}

NextFloat ==
    \/ \E v \in Values("Float32", F32Inputs) : ValueToStorage(v, "Float")
    \/ \E v \in Values("Float64", F64Inputs) : ValueToStorage(v, "Double")
    \/ \E g \in Garbage : Extend(g)
    \/ StorageToValue
    \/ StorageSize

SpecFloat == Init /\ [][NextFloat]_vars

\* whether the float value v is a NaN
FloatIsNaN(v) == IF v.kind = "Float32" THEN IsNaN32(v.v) ELSE IsNaN64(v.v)

\* the bit pattern without its sign bit
FloatMagnitude(bits) ==
    [i \in 1..Len(bits) |-> IF i = 1 THEN bits[1] % 128 ELSE bits[i]]

\* the order -Inf < negative finite < -0 < +0 < positive finite < +Inf of
\* two bit patterns of the same width, neither of them a NaN
FloatLess(x, y) ==
    LET xneg == x[1] >= 128
        yneg == y[1] >= 128
    IN  IF xneg /\ yneg THEN LexLess(FloatMagnitude(y), FloatMagnitude(x))
        ELSE IF xneg THEN TRUE
        ELSE IF yneg THEN FALSE
        ELSE LexLess(FloatMagnitude(x), FloatMagnitude(y))

(***************************************************************************)
(* The dispatch layer: every kind of value under every aspect, and buffers *)
(* that come from the caller and not from an encoder.                      *)
(***************************************************************************)
\* the longest payload of a buffer of the caller
MaxPayload == 8

\* 0, the bytes of the aspects, and two bytes above the byte of True
TagBytes == (0..(Len(AspectNames) + 1)) \cup {255}

\* runs of a letter, a terminator alone, two texts with a terminator
\* inside, and size codes that end while their continuation bit is set
Payloads ==
    {[i \in 1..n |-> 97] : n \in 0..MaxPayload}
    \cup {<<0>>, <<97, 0>>, <<97, 98, 0, 99>>}
    \cup {<<193>>, <<193, 129>>, <<193, 193, 193>>, <<62>>, <<62, 126>>}

\* the caller hands storage_to_value or storage_size the buffer b
Load(b) ==
    /\ op' = "load"
    /\ val' = NoValue
    /\ asp' = "None"
    /\ rec' = OkBytes(b)
    /\ garbage' = <<>>
    /\ out' = NoResult

NextDispatch ==
    \/ \E v \in Values("String", {<<"5">>, DateText(1970, 1, 1, 0, 0, 0, <<"Z">>)}),
          a \in Aspect : ValueToStorage(v, a)
    \/ \E v \in Values("Int32", {-5, 5}), a \in Aspect : ValueToStorage(v, a)
    \/ \E v \in Values("Int64", {<<-1, 0, 0, 5>>, <<0, 0, 0, 5>>}), a \in Aspect :
            ValueToStorage(v, a)
    \/ \E v \in Values("Float32", {<<63, 128, 0, 0>>, <<191, 128, 0, 0>>}), a \in Aspect :
            ValueToStorage(v, a)
    \/ \E v \in Values("Float64", {<<63, 240, 0, 0, 0, 0, 0, 0>>,
                                     <<191, 240, 0, 0, 0, 0, 0, 0>>}), a \in Aspect :
            ValueToStorage(v, a)
    \/ \E v \in Values("BigInt", Signed({NatMag(0), NatMag(5)})), a \in Aspect :
            ValueToStorage(v, a)
    \/ \E v \in Values("Boolean", BOOLEAN), a \in Aspect : ValueToStorage(v, a)
    \/ \E t \in TagBytes, p \in Payloads : Load(<<t>> \o p)
    \/ StorageToValue
    \/ StorageSize

SpecDispatch == Init /\ [][NextDispatch]_vars

\* the storage types a value of a kind is written in
Compatible(kind, a) ==
    LET ty == aspect_storage(a)
    IN  CASE kind = "String" -> ty \in {"String", "BigNum", "DateTime"}
          [] kind = "Int32" -> ty = "Int32"
          [] kind = "Int64" -> a = "Long"
          [] kind = "Float32" -> a = "Float"
          [] kind = "Float64" -> a = "Double"
          [] kind = "BigInt" -> ty = "BigInt"
          [] kind = "Boolean" -> a = "Boolean"

(***************************************************************************)
(* A stream of records.  The caller encodes values one after the other and *)
(* appends each record to one buffer (rec), keeping the lengths of the     *)
(* records (val); then a cursor (out.value) starts at offset 0 and is      *)
(* advanced by storage_size of the buffer from the cursor, out.steps       *)
(* counting the steps.                                                     *)
(***************************************************************************)
\* the largest number of records of a stream
MaxRecords == 3

\* the records put so far, the cursor and the steps taken
StreamLengths == IF val.kind = "Stream" THEN val.v ELSE <<>>
StreamBuffer == IF rec.tag = "Ok" THEN rec.bytes ELSE <<>>
Cursor == IF out.tag = "Ok" THEN out.value ELSE 0
Steps == IF out.tag = "Ok" THEN out.steps ELSE 0

\* value_to_storage(v, a), whose record is appended to the buffer
Put(v, a) ==
    LET r == value_to_storage(v, a)
    IN  /\ op \in {"init", "put"}
        /\ Len(StreamLengths) < MaxRecords
        /\ r.tag = "Ok"
        /\ op' = "put"
        /\ val' = [kind |-> "Stream", v |-> Append(StreamLengths, Len(r.bytes))]
        /\ asp' = a
        /\ rec' = OkBytes(StreamBuffer \o r.bytes)
        /\ out' = NoResult
        /\ UNCHANGED garbage

\* the cursor advances by storage_size(buffer from the cursor)
Step ==
    LET size == storage_size(Drop(StreamBuffer, Cursor))
    IN  /\ op \in {"put", "step"}
        /\ out.tag # "Panic"
        /\ Cursor < Len(StreamBuffer)
        /\ op' = "step"
        /\ out' = IF size.tag = "Ok"
                  THEN [tag |-> "Ok", value |-> Cursor + size.value, steps |-> Steps + 1]
                  ELSE Panic
        /\ UNCHANGED <<val, asp, rec, garbage>>

NextStream ==
    \/ \E v \in Values("String", {<<"a", "b">>, <<"c">>}) : Put(v, "String")
    \/ \E v \in Values("String", {<<"5", ".", "3">>, <<"-", "1", "0">>}) : Put(v, "Decimal")
    \/ \E v \in Values("String", {DateText(1970, 1, 1, 0, 0, 0, <<"Z">>),
                                    DateText(2525, 1, 1, 0, 0, 0, <<"Z">>)}) :
            Put(v, "DateTime")
    \/ \E v \in Values("Boolean", BOOLEAN) : Put(v, "Boolean")
    \/ \E v \in Values("Int32", {-5, 5}) : Put(v, "Int")
    \/ \E v \in Values("Int64", {<<-1, 0, 0, 5>>, <<0, 0, 0, 5>>}) : Put(v, "Long")
    \/ \E v \in Values("Float32", {<<63, 128, 0, 0>>, <<191, 128, 0, 0>>}) :
            Put(v, "Float")
    \/ \E v \in Values("Float64", {<<63, 240, 0, 0, 0, 0, 0, 0>>,
                                     <<191, 240, 0, 0, 0, 0, 0, 0>>}) : Put(v, "Double")
    \/ \E v \in Values("BigInt", Signed({NatMag(5)})) : Put(v, "Integer")
    \/ Step

SpecStream == Init /\ [][NextStream]_vars

\* the sum of the first n numbers of s
RECURSIVE SumTo(_, _)
SumTo(s, n) == IF n = 0 THEN 0 ELSE s[n] + SumTo(s, n - 1)

(***************************************************************************)
(* The fraction codec on its own.                                          *)
(***************************************************************************)
\* the longest fraction made of the digits 0, 1 and 9
MaxFractionDigits == 4

\* every digit string of at most two digits, and the longer strings of the
\* digits 0, 1 and 9
FractionInputs ==
    UNION {[1..k -> {DigitChars[i] : i \in 1..10}] : k \in 0..2}
    \cup UNION {[1..k -> {"0", "1", "9"}] : k \in 3..MaxFractionDigits}

\* encode_fraction(Some(f))
EncodeFraction(f) ==
    /\ op' = "encode_fraction"
    /\ val' = [kind |-> "Fraction", v |-> f]
    /\ asp' = "None"
    /\ rec' = OkBytes(encode_fraction([some |-> TRUE, str |-> f]))
    /\ garbage' = <<>>
    /\ out' = NoResult

\* decode_fraction of the bytes last encoded, in a build with or without
\* overflow checks
DecodeFraction ==
    /\ val.kind = "Fraction"
    /\ op' = "decode_fraction"
    /\ \E oc \in BOOLEAN : out' = decode_fraction(rec.bytes, oc)
    /\ UNCHANGED <<val, asp, rec, garbage>>

NextFraction ==
    \/ \E f \in FractionInputs : EncodeFraction(f)
    \/ DecodeFraction

SpecFraction == Init /\ [][NextFraction]_vars

\* the lexicographic order of two digit strings, a proper prefix being
\* below its extensions
DigitLess(f, g) ==
    LexLess([i \in 1..Len(f) |-> DigitVal(f[i])], [i \in 1..Len(g) |-> DigitVal(g[i])])

\* C1: BigInt round trip.  For every integer v of any sign and magnitude
\* and every aspect a of BigInt storage, decoding the record of (BigInt(v),
\* a) returns (BigInt(v), a).
C1_BigIntRoundTrip ==
    (op = "storage_to_value" /\ val.kind = "BigInt" /\ asp \in BigIntAspects
        /\ garbage = <<>>)
    => out = [tag |-> "Ok", value |-> val, aspect |-> asp]

\* C2: BigInt order.  For all integers x < y encoded under the same aspect
\* of BigInt storage, the record of x is below the record of y in the
\* unsigned lexicographic order of bytes; stated of every two integers
\* encoded one after the other, in either order.
C2_BigIntOrder ==
    [][(val.kind = "BigInt" /\ val'.kind = "BigInt" /\ asp = asp'
            /\ asp \in BigIntAspects)
        => /\ BigLess(val.v, val'.v) => LexLess(rec.bytes, rec'.bytes)
           /\ BigLess(val'.v, val.v) => LexLess(rec'.bytes, rec.bytes)]_vars

\* C3: Decimal order.  For any two decimal texts [-]digits[.digits] encoded
\* under Decimal, if the first is below the second in numeric order (a text
\* with a leading '-' and value zero counting as below 0), its record is
\* below the record of the second in the unsigned lexicographic order of
\* bytes; stated of every two texts encoded one after the other, in either
\* order.
C3_DecimalOrder ==
    [][(val.kind = "String" /\ val'.kind = "String" /\ asp = "Decimal"
            /\ asp' = "Decimal" /\ rec.tag = "Ok" /\ rec'.tag = "Ok")
        => /\ DecimalLess(val.v, val'.v) => LexLess(rec.bytes, rec'.bytes)
           /\ DecimalLess(val'.v, val.v) => LexLess(rec'.bytes, rec.bytes)]_vars

\* C4: Decimal round trip.  A text [-]I.F with a canonical I and a
\* non-empty F decodes to the same text with aspect Decimal; a text with no
\* fraction or an empty fraction decodes to its integer part alone.
C4_DecimalRoundTrip ==
    (op = "storage_to_value" /\ val.kind = "String" /\ asp = "Decimal"
        /\ garbage = <<>>)
    => LET parts == SplitDot(val.v)
           expected == IF parts.second.some /\ parts.second.str # <<>>
                       THEN val.v
                       ELSE FormatInteger(ParseInteger(parts.first).value)
       IN  out = [tag |-> "Ok", value |-> [kind |-> "String", v |-> expected],
                  aspect |-> "Decimal"]

\* C5: bytes after a BigInt record change nothing.  For every integer v
\* with record r under Integer and every non-empty g, decoding r ++ g
\* returns (BigInt(v), Integer), and storage_size(r ++ g) = len(r) = 1 +
\* the length of the size code + the number of magnitude bytes.
C5_BigIntTrailingBytes ==
    (val.kind = "BigInt" /\ asp = "Integer" /\ garbage # <<>>)
    => /\ op = "storage_to_value"
            => out = [tag |-> "Ok", value |-> val, aspect |-> asp]
       /\ op = "storage_size"
            => LET sd == size_decode(Drop(rec.bytes, 1))
               IN  /\ out = OkValue(Len(rec.bytes))
                   /\ Len(rec.bytes) = 1 + sd.idx + sd.size

\* C6: bytes after a Decimal record do not change what is decoded.  For
\* every text accepted by the encoder, with record r, and every g,
\* storage_to_value(r ++ g) returns what storage_to_value(r) returns.
C6_DecimalTrailingBytes ==
    (op = "storage_to_value" /\ val.kind = "String" /\ asp = "Decimal")
    => \E oc \in BOOLEAN : out = storage_to_value(rec.bytes, oc)

\* C7: length of a Decimal record.  For every Decimal record r of the
\* encoder and every g, storage_size(r ++ g) = len(r).
C7_DecimalRecordLength ==
    (op = "storage_size" /\ val.kind = "String" /\ asp = "Decimal")
    => out = OkValue(Len(rec.bytes))

\* C8: size-code round trip.  For every n, size_decode applied to the size
\* code of n read in wire order returns (true, n, k), where k is the number
\* of bytes of the code; n = 0 included.
C8_SizeRoundTrip ==
    op = "size_decode" =>
        out.value = [sign |-> TRUE, size |-> val.v, idx |-> Len(rec.bytes)]

\* C9: size-code order.  For all a < b the wire-order code of a is below
\* the wire-order code of b in the unsigned lexicographic order of bytes;
\* stated of every two sizes encoded one after the other.
C9_SizeOrder ==
    [][(val.kind = "Size" /\ val'.kind = "Size" /\ val.v < val'.v)
        => LexLess(Reverse(rec.bytes), Reverse(rec'.bytes))]_vars

\* C10: order of fixed-width integers.  For all i32 a < b under the same
\* aspect of Int32 storage, all i64 a < b under Long, and all DateTime
\* texts whose seconds since the epoch satisfy a < b, the record of a is
\* below the record of b in the unsigned lexicographic order of bytes;
\* stated of every two values encoded one after the other, in either order.
C10_FixedOrder ==
    [][(val.kind = val'.kind /\ asp = asp' /\ rec.tag = "Ok" /\ rec'.tag = "Ok"
            /\ asp \in Int32Aspects \cup {"Long", "DateTime"})
        => /\ FixedLess(val, val') => LexLess(rec.bytes, rec'.bytes)
           /\ FixedLess(val', val) => LexLess(rec'.bytes, rec.bytes)]_vars

\* a negative i64 was encoded under Long, its record starts below 128 after
\* the tag, and the record of some non-negative input is above it
C10_Witness ==
    /\ op = "value_to_storage"
    /\ val.kind = "Int64"
    /\ asp = "Long"
    /\ val.v[1] < 0
    /\ rec.bytes[2] < 128
    /\ \E w \in I64Inputs :
          /\ I64Less(val.v, w)
          /\ w[1] >= 0
          /\ LexLess(rec.bytes, int64_to_storage(w, "Long").bytes)

\* C11: order of floats.  For any two f32 under Float, and any two f64
\* under Double, neither of them a NaN, if the first is before the second
\* in the order -Inf < negative finite < -0 < +0 < positive finite < +Inf,
\* its record is below the record of the second in the unsigned
\* lexicographic order of bytes; stated of every two values encoded one
\* after the other, in either order.
C11_FloatOrder ==
    [][(val.kind = val'.kind /\ val.kind \in {"Float32", "Float64"} /\ asp = asp'
            /\ rec.tag = "Ok" /\ rec'.tag = "Ok"
            /\ ~FloatIsNaN(val) /\ ~FloatIsNaN(val'))
        => /\ FloatLess(val.v, val'.v) => LexLess(rec.bytes, rec'.bytes)
           /\ FloatLess(val'.v, val.v) => LexLess(rec'.bytes, rec.bytes)]_vars

\* a negative f64 that is no NaN was encoded under Double, all the bits of
\* its pattern were complemented, and the records of a larger negative
\* input and of a positive input are above its record
C11_Witness ==
    /\ op = "value_to_storage"
    /\ val.kind = "Float64"
    /\ asp = "Double"
    /\ val.v[1] >= 128
    /\ ~IsNaN64(val.v)
    /\ Drop(rec.bytes, 1) = NotAll(val.v)
    /\ \E w \in F64Inputs :
          /\ w[1] >= 128 /\ ~IsNaN64(w)
          /\ FloatLess(val.v, w)
          /\ LexLess(rec.bytes, float64_to_storage(w, "Double").bytes)
    /\ \E w \in F64Inputs :
          /\ w[1] < 128 /\ ~IsNaN64(w)
          /\ LexLess(rec.bytes, float64_to_storage(w, "Double").bytes)

\* C12: float round trip.  For every f32 bit pattern under Float and every
\* f64 bit pattern under Double, the NaN patterns of both signs, the
\* infinities, the subnormals and both zeros included, decoding the record
\* returns the value with the same bit pattern and the aspect.
C12_FloatRoundTrip ==
    (op = "storage_to_value" /\ val.kind \in {"Float32", "Float64"}
        /\ garbage = <<>>)
    => out = [tag |-> "Ok", value |-> val, aspect |-> asp]

\* C13: aspect check of the encoder.  For every value and every aspect
\* that is not compatible with the kind of the value, value_to_storage
\* returns Err(UnexpectedAspect) and no bytes.
C13_AspectCheck ==
    (op = "value_to_storage" /\ val.kind \in {"String", "Int32", "Int64", "Float32",
                                              "Float64", "BigInt", "Boolean"}
        /\ ~Compatible(val.kind, asp))
    => rec = Err("UnexpectedAspect")

\* C14: a byte that is no aspect.  storage_to_value on a buffer whose first
\* byte is 0 or above the byte of True returns Err(UnexpectedAspect) and
\* does not abort.
C14_UnknownAspectByte ==
    (op = "storage_to_value" /\ byte_aspect(rec.bytes[1]) = "Panic")
    => out = Err("UnexpectedAspect")

\* C15: aspect_storage is total.  For every aspect but True and False the
\* encoder of a value that is no String does not abort, and storage_size
\* does not abort on a buffer that starts with the byte of the aspect.
C15_AspectStorageTotal ==
    LET encoded == /\ op = "value_to_storage"
                   /\ val.kind \in {"Int32", "Int64", "Float32", "Float64",
                                    "BigInt", "Boolean"}
                   /\ asp \notin {"True", "False"}
        sized == /\ op = "storage_size"
                 /\ rec.bytes[1] \in 1..(aspect_byte("False") - 1)
    IN  (encoded => rec.tag # "Panic") /\ (sized => out.tag = "Ok")

\* C16: short payload of a fixed-width record.  storage_to_value on a
\* buffer whose aspect has storage Int32, Int64, DateTime, Float32 or
\* Float64 and that holds fewer bytes after the tag than the width, none
\* included, returns the error of the storage type (that of Int64 for
\* DateTime) and no value.
C16_ShortPayload ==
    op = "storage_to_value" =>
        LET buffer == rec.bytes \o garbage
            a == byte_aspect(buffer[1])
            ty == IF a \in {"Panic", "True", "False"} THEN "Panic" ELSE aspect_storage(a)
            width == IF ty \in {"Int32", "Float32"} THEN 4 ELSE 8
            error == CASE ty = "Int32" -> "BadInt32Layout"
                       [] ty \in {"Int64", "DateTime"} -> "BadInt64Layout"
                       [] ty = "Float32" -> "BadFloat32Layout"
                       [] ty = "Float64" -> "BadFloat64Layout"
        IN  (ty \in {"Int32", "Int64", "DateTime", "Float32", "Float64"}
                /\ Len(buffer) - 1 < width)
            => out = Err(error)

\* C17: truncated size code.  storage_to_value on a BigInt or Decimal
\* buffer that ends right after the tag, or while the last byte of the size
\* code still has its continuation bit set, returns Err(BadSizeEncoding)
\* and no value.
C17_TruncatedSizeCode ==
    op = "storage_to_value" =>
        LET buffer == rec.bytes \o garbage
            a == byte_aspect(buffer[1])
            ty == IF a \in {"Panic", "True", "False"} THEN "Panic" ELSE aspect_storage(a)
            rest == Drop(buffer, 1)
            n == Len(rest)
            sd == size_decode(rest)
            last == IF sd.sign THEN rest[n] ELSE Not8(rest[n])
            continued == IF n = 1 THEN BitAnd(last, FIRST_CONTINUATION) # 0
                         ELSE BitAnd(last, CONTINUATION) # 0
        IN  (ty \in {"BigInt", "BigNum"} /\ (n = 0 \/ (sd.idx = n /\ continued)))
            => out = Err("BadSizeEncoding")

\* C18: stepping through a stream.  For every sequence of records r1..rk
\* of the encoder, of any kind, a cursor that starts at offset 0 of
\* r1 ++ ... ++ rk and advances by storage_size(buffer from the cursor) is
\* at the start of r(i+1) after i steps, hence at the end of the buffer
\* after k steps, and no step aborts.
C18_StreamStepping ==
    op = "step" =>
        /\ out.tag = "Ok"
        /\ out.steps <= Len(val.v)
        /\ out.value = SumTo(val.v, out.steps)

\* C19: length of a string record.  For a buffer that starts with the tag
\* of an aspect of String storage, storage_size returns the number of bytes
\* up to and including the first byte 0 when there is one, and the length
\* of the buffer when there is none.
C19_StringRecordLength ==
    op = "storage_size" =>
        LET buffer == rec.bytes \o garbage
            a == byte_aspect(buffer[1])
            ty == IF a \in {"Panic", "True", "False"} THEN "Panic" ELSE aspect_storage(a)
            zeros == {i \in 2..Len(buffer) : buffer[i] = 0}
        IN  ty = "String"
            => out = OkValue(IF zeros = {} THEN Len(buffer)
                             ELSE CHOOSE k \in zeros : \A j \in zeros : k <= j)

\* C20: record of the BigInt zero.  value_to_storage(BigInt(0), a) is the
\* tag followed by a size code that decodes as (positive, 0), and by no
\* payload byte.
C20_BigIntZeroLayout ==
    (op = "value_to_storage" /\ val.kind = "BigInt" /\ val.v = BigZero)
    => LET code == Drop(rec.bytes, 1)
       IN  /\ rec.bytes[1] = aspect_byte(asp)
           /\ size_decode(code) = [sign |-> TRUE, size |-> 0, idx |-> Len(code)]

\* C21: fraction round trip.  For every digit string f, the empty string,
\* strings that start with zeros and strings that end with zeros included,
\* decode_fraction(encode_fraction(Some(f))) = f; and every byte of the
\* code of a non-empty f is at least 2, the code of the empty f being the
\* single byte 0.
C21_FractionRoundTrip ==
    LET encoded == op \in {"encode_fraction", "decode_fraction"}
        decoded == op = "decode_fraction"
    IN  /\ (encoded /\ val.v # <<>>) => \A i \in 1..Len(rec.bytes) : rec.bytes[i] >= 2
        /\ (encoded /\ val.v = <<>>) => rec.bytes = <<0>>
        /\ decoded => out = OkValue(val.v)

\* a fraction of an odd number of digits that starts and ends with a zero
\* was encoded in several bytes and decoded to itself
C21_Witness ==
    /\ op = "decode_fraction"
    /\ Len(val.v) >= 3
    /\ Len(val.v) % 2 = 1
    /\ val.v[1] = "0"
    /\ val.v[Len(val.v)] = "0"
    /\ Len(rec.bytes) >= 2
    /\ out = OkValue(val.v)

\* C22: order of fractions.  For any two digit strings f and g, the code of
\* f is below the code of g in the unsigned lexicographic order of bytes
\* exactly when f is below g in the lexicographic order of digits, a proper
\* prefix being below its extensions; stated of every two strings encoded
\* one after the other.
C22_FractionOrder ==
    [][(val.kind = "Fraction" /\ val'.kind = "Fraction")
        => (LexLess(rec.bytes, rec'.bytes) <=> DigitLess(val.v, val'.v))]_vars

\* the string 1000 was encoded: its code is above the code of its prefix
\* 100 and below the code of 19, which is shorter
C22_Witness ==
    /\ op = "encode_fraction"
    /\ val.v = <<"1", "0", "0", "0">>
    /\ Len(rec.bytes) = 2
    /\ LexLess(encode_fraction([some |-> TRUE, str |-> <<"1", "0", "0">>]), rec.bytes)
    /\ LexLess(rec.bytes, encode_fraction([some |-> TRUE, str |-> <<"1", "9">>]))

\* C23: size codes of negative carriers.  For every n >= 1, size_decode
\* applied to the bytewise complement of the wire-order size code of n
\* returns (false, n, k), k being the number of bytes of the code;
\* size_decode of the single byte 0b01111111 returns (false, 0, 1) and
\* size_decode of the single byte 0b10000000 returns (true, 0, 1).
C23_NegativeSizeDecode ==
    LET plain == op = "size_decode"
        negated == op = "size_decode_negative"
    IN  /\ (negated /\ val.v >= 1)
            => out.value = [sign |-> FALSE, size |-> val.v, idx |-> Len(rec.bytes)]
        /\ (plain /\ Reverse(rec.bytes) = <<127>>)
            => out.value = [sign |-> FALSE, size |-> 0, idx |-> 1]
        /\ (negated /\ NotAll(Reverse(rec.bytes)) = <<128>>)
            => out.value = [sign |-> TRUE, size |-> 0, idx |-> 1]

\* the complement of a size code of three bytes was decoded
C23_Witness ==
    /\ op = "size_decode_negative"
    /\ val.v >= 1
    /\ Len(rec.bytes) = 3
    /\ out.value = [sign |-> FALSE, size |-> val.v, idx |-> 3]

\* C24: decoding is injective on the records of the Decimal encoder.  If
\* two decimal texts are encoded under Decimal to two different records,
\* the two records decode to two different texts; stated of the text last
\* encoded and decoded against every other text of the model.
C24_DecimalDecodeInjective ==
    (op = "storage_to_value" /\ val.kind = "String" /\ asp = "Decimal"
        /\ garbage = <<>> /\ out.tag = "Ok")
    => \A w \in DecimalInputs :
           LET other == value_to_storage(w, "Decimal")
           IN  (other.tag = "Ok" /\ other.bytes # rec.bytes)
               => \A oc \in BOOLEAN : storage_to_value(other.bytes, oc) # out

=============================================================================
